---- MODULE Spec2Model ----
(***************************************************************************)
(* Model of bikesharecharts_collector (src/src/main.rs): one run of main,  *)
(* which globs the gzip-compressed station_status snapshots, decodes each, *)
(* keeps the "active" stations, interns their identifiers into u16 codes,  *)
(* appends one row per active station to six Arrow column builders, builds *)
(* one RecordBatch, writes it to data.parquet, closes the writer and       *)
(* finally serialises the identifier map to id_map.json.                   *)
(*                                                                         *)
(* Station identifiers (opaque strings in the program) are represented by  *)
(* natural numbers.  Every unwrap()/expect() of the program is a panic and *)
(* ends the run (pc = "aborted").  What depends on the build is a choice:  *)
(* u16 overflow panics or wraps (overflow_checks), and writer.write may    *)
(* accept or reject the batch.                                             *)
(*                                                                         *)
(* Spec starts where the for loop is first reached.  SpecCap starts at the *)
(* top of the loop late in a run, when `earlier` identifiers are already   *)
(* interned (id_counter = earlier): that prefix of the run is summarised   *)
(* by the number `earlier`, and the map, the builders and the histories    *)
(* hold what is added after it.                                            *)
(***************************************************************************)
EXTENDS Integers, Sequences, FiniteSets, TLC

\* ------------------------------------------------------------------ bounds
\* Largest number of files the glob yields in one run.
MaxSnapshots == 2
\* Largest number of station objects in one decoded document.
MaxStations == 2
\* Number of different station identifiers the documents draw from.
NumIds == 2

\* ------------------------------------------------------ program arithmetic
\* u16: the type of id_counter, of the codes and of the four count columns.
U16Modulus == 2 ^ 16
U16Max == U16Modulus - 1

\* station.num_bikes_available - station.num_ebikes_available, evaluated in
\* u16 by a build without overflow checks (two's complement wrap).
WrappingSub(a, b) == (a - b) % U16Modulus
\* id_counter + 1, evaluated in u16 by a build without overflow checks.
WrappingAdd(a, b) == (a + b) % U16Modulus

\* The seconds kept as they are.
WithSecondZeroNoop(t) == t
\* NaiveDateTime::from_timestamp_opt(t, 0).with_second(0): the start of the
\* minute that holds second t (calendar minutes are 60 s, no leap seconds).
WithSecondZero(t) == t - (t % 60)
\* NaiveDateTime::timestamp_millis
TimestampMillis(secs) == secs * 1000

\* The filter left out: every station is kept.
IsActiveAlways(station) == TRUE
\* The filter comparing without regard to case.
IsActiveIgnoreCase(station) == station.station_status \in {"active", "Active"}
\* The closure of .filter(...): case-sensitive comparison with "active".
IsActive(station) == station.station_status = "active"

\* ------------------------------------------------------------------ inputs
StationIdInputs == 1 .. NumIds
StatusInputs == {"active", "Active", "inactive"}
BikeInputs == {1, 5}
EbikeInputs == {2}
DisabledInputs == {1}
DockInputs == {10}
LastUpdatedInputs == {-1, 59, 60}

\* The fields of struct Station that main reads.
StationInputs ==
    [station_id : StationIdInputs,
     station_status : StatusInputs,
     num_bikes_available : BikeInputs,
     num_ebikes_available : EbikeInputs,
     num_bikes_disabled : DisabledInputs,
     num_docks_available : DockInputs]

StationLists(S, n) == UNION {[1 .. k -> S] : k \in 0 .. n}

\* struct StationStatus as decoded: last_updated and data.stations.
SnapshotInputs ==
    [last_updated : LastUpdatedInputs,
     stations : StationLists(StationInputs, MaxStations)]

\* ------------------------------------------------------------------- state
VARIABLES
    overflow_checks,       \* the build: TRUE = arithmetic overflow panics
    pc,                    \* position of main
    abort_reason,          \* which unwrap/expect/overflow ended the run
    n_entries,             \* number of paths the glob yields
    earlier,               \* identifiers interned before the initial state
    entry_idx,             \* number of glob entries taken so far
    status,                \* the StationStatus decoded last
    time,                  \* `time` of the current iteration, in seconds
    stations,              \* the filtered Vec<Station>
    idx,                   \* position of `for station in &stations`
    id_legend,             \* HashMap<String, u16>
    id_counter,            \* u16
    times, station_ids, num_bikes_available, num_ebikes_available,
    num_bikes_disabled, num_docks_available,   \* the six builders
    batch,                 \* the RecordBatch, once built
    data_parquet,          \* what the writer has put into data.parquet
    id_map_json,           \* contents of id_map.json
    rows,                  \* history: the source of every complete row
    rows_before,           \* history: rows present when the entry was decoded
    first_seen,            \* history: identifiers in order of first interning
    seen_active            \* history: identifiers decoded with status "active"

builders == <<times, station_ids, num_bikes_available, num_ebikes_available,
              num_bikes_disabled, num_docks_available>>
interner == <<id_legend, id_counter>>
iteration == <<status, time, stations, idx>>
outputs == <<batch, data_parquet, id_map_json>>
history == <<rows, rows_before, first_seen, seen_active>>
run == <<overflow_checks, n_entries, earlier>>
vars == <<run, pc, abort_reason, entry_idx, iteration,
          interner, builders, outputs, history>>

None == [none |-> TRUE]

Range(f) == {f[x] : x \in DOMAIN f}

\* Field::new(name, type, false) x 6 and Schema::new, lines 61-82.
WriterSchema ==
    << [name |-> "station_ids", type |-> "UInt16", nullable |-> FALSE],
       [name |-> "num_bikes_available", type |-> "UInt16", nullable |-> FALSE],
       [name |-> "num_ebikes_available", type |-> "UInt16", nullable |-> FALSE],
       [name |-> "num_bikes_disabled", type |-> "UInt16", nullable |-> FALSE],
       [name |-> "num_docks_available", type |-> "UInt16", nullable |-> FALSE],
       [name |-> "times", type |-> "Timestamp(Millisecond, None)",
        nullable |-> FALSE] >>

\* The names and arrays given to RecordBatch::try_from_iter, lines 130-149;
\* a field is nullable when its array holds a null, and none does.
BatchSchema ==
    << [name |-> "station_ids", type |-> "UInt16", nullable |-> FALSE],
       [name |-> "num_bikes_available", type |-> "UInt16", nullable |-> FALSE],
       [name |-> "num_ebikes_available", type |-> "UInt16", nullable |-> FALSE],
       [name |-> "num_bikes_disabled", type |-> "UInt16", nullable |-> FALSE],
       [name |-> "num_docks_available", type |-> "UInt16", nullable |-> FALSE],
       [name |-> "time", type |-> "Timestamp(Millisecond, None)",
        nullable |-> FALSE] >>

EmptyStatus == [last_updated |-> 0, stations |-> <<>>]

\* Lines 59-95 have run: data.parquet is created and the writer opened.
InitCommon ==
    /\ overflow_checks \in BOOLEAN
    /\ pc = "loop"
    /\ abort_reason = "none"
    /\ batch = None
    /\ data_parquet = [schema |-> WriterSchema, batches |-> <<>>, footer |-> FALSE]
    /\ id_map_json = [written |-> FALSE, map |-> <<>>]

\* The state when the for loop is first reached.
Init ==
    /\ InitCommon
    /\ earlier = 0
    /\ n_entries \in 0 .. MaxSnapshots
    /\ entry_idx = 0
    /\ status = EmptyStatus
    /\ time = 0
    /\ stations = <<>>
    /\ idx = 1
    /\ rows_before = 0
    /\ id_legend = <<>>
    /\ id_counter = 0
    /\ times = <<>>
    /\ station_ids = <<>>
    /\ num_bikes_available = <<>>
    /\ num_ebikes_available = <<>>
    /\ num_bikes_disabled = <<>>
    /\ num_docks_available = <<>>
    /\ rows = <<>>
    /\ first_seen = <<>>
    /\ seen_active = {}

\* ----------------------------------------------------------------- actions
Abort(reason) ==
    /\ pc' = "aborted"
    /\ abort_reason' = reason

AtLoopTop == pc = "loop" /\ idx > Len(stations)

\* Lines 97-111: the next glob entry is opened, decompressed and parsed;
\* `time` and the filtered `stations` are computed.
GlobNext ==
    /\ AtLoopTop
    /\ entry_idx < n_entries
    /\ \E s \in SnapshotInputs :
        /\ status' = s
        /\ time' = WithSecondZero(s.last_updated)
        /\ stations' = SelectSeq(s.stations, IsActive)
        /\ seen_active' = seen_active \cup
               {s.stations[i].station_id : i \in
                   {j \in DOMAIN s.stations : s.stations[j].station_status = "active"}}
    /\ idx' = 1
    /\ entry_idx' = entry_idx + 1
    /\ rows_before' = Len(times)
    /\ UNCHANGED <<run, pc, abort_reason, interner,
                   builders, outputs, rows, first_seen>>

\* Line 99: the glob entry is an error, or File::open fails.
OpenFail ==
    /\ AtLoopTop
    /\ entry_idx < n_entries
    /\ Abort("IoError")
    /\ UNCHANGED <<run, entry_idx, iteration, interner,
                   builders, outputs, history>>

\* A decode failure that only skips the entry.
DecodeFailSkip ==
    /\ AtLoopTop
    /\ entry_idx < n_entries
    /\ abort_reason' = "DecodeError"
    /\ entry_idx' = entry_idx + 1
    /\ UNCHANGED <<run, pc, iteration, interner,
                   builders, outputs, history>>

\* Line 101: the gzip stream or the JSON document is malformed.
DecodeFail ==
    /\ AtLoopTop
    /\ entry_idx < n_entries
    /\ Abort("DecodeError")
    /\ UNCHANGED <<run, entry_idx, iteration, interner,
                   builders, outputs, history>>

\* Lines 102-103: last_updated is outside the range of NaiveDateTime.
TimestampFail ==
    /\ AtLoopTop
    /\ entry_idx < n_entries
    /\ Abort("TimestampOutOfRange")
    /\ UNCHANGED <<run, entry_idx, iteration, interner,
                   builders, outputs, history>>

\* Lines 115-120: id_legend.entry(id).or_insert_with(|| { id_counter =
\* id_counter + 1; id_counter }), as a build without overflow checks runs it.
Intern(legend, counter, id) ==
    IF id \in DOMAIN legend
    THEN [legend |-> legend, counter |-> counter, code |-> legend[id]]
    ELSE [legend |-> legend @@ (id :> WrappingAdd(counter, 1)),
          counter |-> WrappingAdd(counter, 1),
          code |-> WrappingAdd(counter, 1)]

\* The closure of or_insert_with runs, and id_counter + 1 leaves u16.
AddOverflows(legend, counter, id) ==
    id \notin DOMAIN legend /\ counter + 1 > U16Max

\* Line 123: the subtraction leaves u16.
SubOverflows(station) ==
    station.num_bikes_available < station.num_ebikes_available

\* The timestamp appended once per document instead of once per row.
PushTimeOncePerSnapshot(i) ==
    times' = IF i = 1 THEN Append(times, TimestampMillis(time)) ELSE times
\* Line 114: times.append_value(time.timestamp_millis()).
PushTime(i) == times' = Append(times, TimestampMillis(time))

\* Lines 122-126: the four count columns of one row.
PushCounts(station) ==
    /\ num_bikes_available' =
           Append(num_bikes_available,
                  WrappingSub(station.num_bikes_available,
                              station.num_ebikes_available))
    /\ num_bikes_disabled' = Append(num_bikes_disabled, station.num_bikes_disabled)
    /\ num_ebikes_available' =
           Append(num_ebikes_available, station.num_ebikes_available)
    /\ num_docks_available' =
           Append(num_docks_available, station.num_docks_available)

\* Lines 113-127: one iteration of `for station in &stations`.  A build with
\* overflow checks panics at id_counter + 1 or at the subtraction, after the
\* appends that precede it; a build without them wraps and goes on.
AppendRow ==
    /\ pc = "loop"
    /\ idx <= Len(stations)
    /\ LET station == stations[idx]
           id == station.station_id
           r == Intern(id_legend, id_counter, id)
       IN  /\ PushTime(idx)
           /\ IF overflow_checks /\ AddOverflows(id_legend, id_counter, id)
              THEN /\ Abort("AddOverflow")
                   /\ UNCHANGED <<interner, station_ids, num_bikes_available,
                                  num_ebikes_available, num_bikes_disabled,
                                  num_docks_available, idx, rows, first_seen>>
              ELSE /\ id_legend' = r.legend
                   /\ id_counter' = r.counter
                   /\ station_ids' = Append(station_ids, r.code)
                   /\ first_seen' = IF id \in Range(first_seen)
                                    THEN first_seen
                                    ELSE Append(first_seen, id)
                   /\ IF overflow_checks /\ SubOverflows(station)
                      THEN /\ Abort("SubOverflow")
                           /\ UNCHANGED <<num_bikes_available,
                                          num_ebikes_available,
                                          num_bikes_disabled,
                                          num_docks_available, idx, rows>>
                      ELSE /\ PushCounts(station)
                           /\ idx' = idx + 1
                           /\ rows' = Append(rows,
                                  [station |-> station,
                                   last_updated |-> status.last_updated])
                           /\ UNCHANGED <<pc, abort_reason>>
    /\ UNCHANGED <<run, entry_idx, status, time,
                   stations, outputs, rows_before, seen_active>>

\* PrimitiveBuilder::finish: the array holds what was appended.
Finish(builder) == builder

\* Lines 130-150: the six builders are finished (and so emptied) and
\* RecordBatch::try_from_iter checks that the arrays have one length.
BuildBatch ==
    /\ AtLoopTop
    /\ entry_idx = n_entries
    /\ batch = None
    /\ times' = <<>>
    /\ station_ids' = <<>>
    /\ num_bikes_available' = <<>>
    /\ num_ebikes_available' = <<>>
    /\ num_bikes_disabled' = <<>>
    /\ num_docks_available' = <<>>
    /\ LET columns == << Finish(station_ids), Finish(num_bikes_available),
                         Finish(num_ebikes_available),
                         Finish(num_bikes_disabled),
                         Finish(num_docks_available), Finish(times) >>
       IN  IF \A i \in DOMAIN columns : Len(columns[i]) = Len(columns[1])
           THEN /\ batch' = [schema |-> BatchSchema, columns |-> columns]
                /\ pc' = "write"
                /\ UNCHANGED abort_reason
           ELSE /\ Abort("BatchError")
                /\ UNCHANGED batch
    /\ UNCHANGED <<run, entry_idx, iteration, interner,
                   data_parquet, id_map_json, history>>

\* Line 152: writer.write(&batch) succeeds.
WriteOk ==
    /\ pc = "write"
    /\ data_parquet' = [data_parquet EXCEPT !.batches = Append(@, batch)]
    /\ pc' = "close"
    /\ UNCHANGED <<run, abort_reason, entry_idx,
                   iteration, interner, builders, batch, id_map_json, history>>

\* Line 152: writer.write(&batch) returns an error (the writer rejects the
\* batch, or the file cannot be written) and expect panics.
WriteFail ==
    /\ pc = "write"
    /\ Abort("WriteError")
    /\ UNCHANGED <<run, entry_idx, iteration, interner,
                   builders, outputs, history>>

\* Line 156: writer.close() writes the footer.
CloseOk ==
    /\ pc = "close"
    /\ data_parquet' = [data_parquet EXCEPT !.footer = TRUE]
    /\ pc' = "idmap"
    /\ UNCHANGED <<run, abort_reason, entry_idx,
                   iteration, interner, builders, batch, id_map_json, history>>

\* Line 156: writer.close() returns an error and unwrap panics.
CloseFail ==
    /\ pc = "close"
    /\ Abort("CloseError")
    /\ UNCHANGED <<run, entry_idx, iteration, interner,
                   builders, outputs, history>>

\* Lines 158-161: id_map.json is created and the map written to it.
WriteIdMap ==
    /\ pc = "idmap"
    /\ id_map_json' = [written |-> TRUE, map |-> id_legend]
    /\ pc' = "done"
    /\ UNCHANGED <<run, abort_reason, entry_idx,
                   iteration, interner, builders, batch, data_parquet, history>>

\* Lines 158-161: File::create or write_all fails.
IdMapFail ==
    /\ pc = "idmap"
    /\ Abort("IdMapError")
    /\ UNCHANGED <<run, entry_idx, iteration, interner,
                   builders, outputs, history>>

Next ==
    \/ GlobNext
    \/ OpenFail
    \/ DecodeFail
    \/ TimestampFail
    \/ AppendRow
    \/ BuildBatch
    \/ WriteOk
    \/ WriteFail
    \/ CloseOk
    \/ CloseFail
    \/ WriteIdMap
    \/ IdMapFail

Spec == Init /\ [][Next]_vars

\* ------------------------------------------------------- the capacity runs
\* Every code of 1 .. 65535 is taken once CapPrefill identifiers are interned.
CapPrefill == U16Max

\* The state main is in at the top of the for loop after earlier glob entries
\* have been processed: one document whose `earlier` active stations, all
\* with identifiers outside StationIdInputs, were interned in turn (codes
\* 1 .. earlier, one row each), then a document without stations.  The
\* variables hold what is added from here on.
CapInit ==
    /\ InitCommon
    /\ earlier \in {CapPrefill - 1, CapPrefill}
    /\ n_entries \in 2 .. 2 + MaxSnapshots
    /\ entry_idx = 2
    /\ status = EmptyStatus
    /\ time = 0
    /\ stations = <<>>
    /\ idx = 1
    /\ rows_before = 0
    /\ id_legend = <<>>
    /\ id_counter = earlier
    /\ times = <<>>
    /\ station_ids = <<>>
    /\ num_bikes_available = <<>>
    /\ num_ebikes_available = <<>>
    /\ num_bikes_disabled = <<>>
    /\ num_docks_available = <<>>
    /\ rows = <<>>
    /\ first_seen = <<>>
    /\ seen_active = {}

SpecCap == CapInit /\ [][Next]_vars

\* ------------------------------------------------------------ the claims
\* The six columns as they stand: in the builders until the batch is built,
\* in the batch afterwards.
CurStationIds == IF batch = None THEN station_ids ELSE batch.columns[1]
CurBikes == IF batch = None THEN num_bikes_available ELSE batch.columns[2]
CurEbikes == IF batch = None THEN num_ebikes_available ELSE batch.columns[3]
CurDisabled == IF batch = None THEN num_bikes_disabled ELSE batch.columns[4]
CurDocks == IF batch = None THEN num_docks_available ELSE batch.columns[5]
CurTimes == IF batch = None THEN times ELSE batch.columns[6]
CurColumns == <<CurStationIds, CurBikes, CurEbikes, CurDisabled, CurDocks, CurTimes>>

\* The run was ended by a panic in the middle of a row.
RowInterrupted == abort_reason \in {"AddOverflow", "SubOverflow"}

ActiveCount(list) ==
    Cardinality({i \in DOMAIN list : list[i].station_status = "active"})

MinuteStartMillis(t) == 60 * (t \div 60) * 1000

\* C1: the k-th distinct identifier to be interned (the first `earlier` ones
\* came before the initial state) carries code k in the map and in every row
\* it contributes, so codes are stable, unique and ordered by first sight,
\* and code 0 is never in the station-code column.
C1_FirstSeenOrderCodes ==
    /\ \A k \in DOMAIN first_seen :
           /\ first_seen[k] \in DOMAIN id_legend
           /\ id_legend[first_seen[k]] = earlier + k
    /\ Len(first_seen) = Cardinality(DOMAIN id_legend)
    /\ \A i \in DOMAIN rows :
           CurStationIds[i] = id_legend[rows[i].station.station_id]
    /\ \A i \in DOMAIN CurStationIds : CurStationIds[i] # 0

\* C2: when the rows of a decoded document have all been appended, every
\* column has grown by the number of its stations whose status is exactly
\* "active"; no row comes from a station with another status.
C2_RowsEqualActiveCount ==
    /\ pc = "loop" =>
           /\ idx - 1 <= ActiveCount(status.stations)
           /\ \A c \in DOMAIN CurColumns :
                  Len(CurColumns[c]) - rows_before = idx - 1
    /\ AtLoopTop =>
           \A c \in DOMAIN CurColumns :
               Len(CurColumns[c]) - rows_before = ActiveCount(status.stations)
    /\ \A i \in DOMAIN rows : rows[i].station.station_status = "active"

\* C2 witness: a document with an "active" and an "Active" station has been
\* appended in full and has added one row.
C2_Witness ==
    /\ AtLoopTop
    /\ entry_idx > 0
    /\ \E i, j \in DOMAIN status.stations :
           /\ status.stations[i].station_status = "active"
           /\ status.stations[j].station_status = "Active"
    /\ Len(times) - rows_before = 1
    /\ Len(num_docks_available) - rows_before = 1

\* C3: unless a panic has interrupted a row, the six columns (builders, then
\* batch) have one length, the number of rows appended, and index i of each
\* holds the value derived from the i-th appended station record.
C3_ColumnsAligned ==
    ~RowInterrupted =>
        /\ \A c \in DOMAIN CurColumns : Len(CurColumns[c]) = Len(rows)
        /\ \A i \in DOMAIN rows :
               LET st == rows[i].station
               IN  /\ CurStationIds[i] = id_legend[st.station_id]
                   /\ CurBikes[i] =
                          (st.num_bikes_available + U16Modulus
                              - st.num_ebikes_available) % U16Modulus
                   /\ CurEbikes[i] = st.num_ebikes_available
                   /\ CurDisabled[i] = st.num_bikes_disabled
                   /\ CurDocks[i] = st.num_docks_available
                   /\ CurTimes[i] =
                          (rows[i].last_updated - (rows[i].last_updated % 60)) * 1000

\* C3 witness: a batch of at least three rows from two documents is built.
C3_Witness ==
    /\ batch # None
    /\ Len(batch.columns[6]) >= 3
    /\ \E i, j \in DOMAIN rows : rows[i].last_updated # rows[j].last_updated

\* C4: every row of a document with last_updated = t >= 0 carries the
\* timestamp (t - (t mod 60)) * 1000, and rows of documents in different
\* minutes carry different timestamps.
C4_TimestampPerRow ==
    /\ \A i \in DOMAIN rows :
           /\ i \in DOMAIN CurTimes
           /\ rows[i].last_updated >= 0 =>
                  CurTimes[i] = MinuteStartMillis(rows[i].last_updated)
    /\ \A i, j \in DOMAIN rows :
           (/\ rows[i].last_updated >= 0
            /\ rows[j].last_updated >= 0
            /\ rows[i].last_updated \div 60 # rows[j].last_updated \div 60)
               => CurTimes[i] # CurTimes[j]

\* C4 witness: two rows of one document with last_updated = 59 carry 0 and a
\* row of a document with last_updated = 60 carries 60000.
C4_Witness ==
    \E i, j, k \in DOMAIN rows :
        /\ i # j
        /\ rows[i].last_updated = 59 /\ rows[j].last_updated = 59
        /\ CurTimes[i] = 0 /\ CurTimes[j] = 0
        /\ rows[k].last_updated = 60 /\ CurTimes[k] = 60000

\* C5: every row holds the raw e-bike, disabled and dock counts and the true
\* integer difference num_bikes_available - num_ebikes_available, never a
\* value wrapped modulo 2^16.
C5_TrueDifference ==
    \A i \in DOMAIN rows :
        LET st == rows[i].station
        IN  /\ CurBikes[i] = st.num_bikes_available - st.num_ebikes_available
            /\ CurEbikes[i] = st.num_ebikes_available
            /\ CurDisabled[i] = st.num_bikes_disabled
            /\ CurDocks[i] = st.num_docks_available

\* C6: once a document is decoded, filtering, interning and appending its
\* active stations never ends the run.
C6_NormalizationNeverAborts == ~RowInterrupted

\* C7: the 65,536th new identifier is refused: never more than 65,535
\* identifiers are interned, none has code 0 or the code 1 .. earlier of an
\* identifier interned before, and no two share a code.
C7_CapacityNoWrap ==
    /\ earlier + Cardinality(DOMAIN id_legend) <= U16Max
    /\ \A s \in DOMAIN id_legend : id_legend[s] \notin 0 .. earlier
    /\ \A s1, s2 \in DOMAIN id_legend :
           s1 # s2 => id_legend[s1] # id_legend[s2]

\* C8: the batch handed to the writer has the schema the writer was opened
\* with: the same field names, order and types.
C8_BatchMatchesWriterSchema ==
    batch # None => batch.schema = data_parquet.schema

\* C9: the footer is written only when every glob entry was decoded and the
\* batch written; after a decode failure the run is over, no batch is built
\* or written and the footer is never written.
C9_FinalizedOnlyAfterAllDecoded ==
    /\ data_parquet.footer =>
           /\ entry_idx = n_entries
           /\ abort_reason \notin {"DecodeError", "IoError", "TimestampOutOfRange"}
           /\ Len(data_parquet.batches) = 1
    /\ abort_reason = "DecodeError" =>
           /\ pc = "aborted"
           /\ batch = None
           /\ data_parquet.batches = <<>>
           /\ ~data_parquet.footer
           /\ ~id_map_json.written

\* C9 witness: the second glob entry fails to decode after the first one has
\* contributed rows.
C9_Witness ==
    /\ pc = "aborted"
    /\ abort_reason = "DecodeError"
    /\ entry_idx >= 1
    /\ Len(times) >= 1
    /\ ~data_parquet.footer

\* C10: only identifiers of active stations are interned; at the end of a
\* successful run id_map.json holds exactly the identifiers that were active
\* in some document, its codes are exactly the values of the station-code
\* column, and it is written only after data.parquet has its footer.
C10_MapIsActiveStations ==
    /\ DOMAIN id_legend \subseteq seen_active
    /\ id_map_json.written => data_parquet.footer
    /\ pc = "done" =>
           /\ id_map_json.written
           /\ DOMAIN id_map_json.map = seen_active
           /\ Range(id_map_json.map) = Range(data_parquet.batches[1].columns[1])

\* C10 witness: a successful run in which a station that was never active
\* has no entry in a map that is not empty.
C10_Witness ==
    /\ pc = "done"
    /\ DOMAIN id_map_json.map # {}
    /\ \E i \in DOMAIN status.stations :
           /\ status.stations[i].station_status # "active"
           /\ status.stations[i].station_id \notin DOMAIN id_map_json.map

====
